---- MODULE Spec2Model ----
(***************************************************************************)
(* ght: fetch a page, extract its <title>, print it (optionally as a       *)
(* Markdown link) and optionally copy it to the clipboard (src/main.go).   *)
(*                                                                         *)
(* Strings are sequences of one-character strings, so that HasPrefix,      *)
(* TrimSpace, the title pattern, entity decoding and Fields are computed   *)
(* character by character as the Go code computes them.                    *)
(***************************************************************************)
EXTENDS Integers, Sequences, FiniteSets, TLC

VARIABLES
    args,        \* os.Args[1:]
    pc,          \* position of the single thread of control
    parsed,      \* the six results of parseArgs
    url,         \* run's url (result of resolveURL)
    urlErr,      \* resolveURL's error
    rawURL,      \* fetchTitle's parameter, after the scheme default
    resp,        \* the response body reader: "none", "open", "closed"
    status,      \* resp.StatusCode
    body,        \* the bytes the server sends / the bytes read
    title,       \* fetchTitle's result
    fetchErr,    \* fetchTitle's error
    stdout,      \* what was written to stdout, in order
    stderr,      \* what was written to stderr, in order
    exitCode,    \* run's result, -1 while running
    goos,        \* runtime.GOOS, "" until clipboardCommands reads it
    candidates,  \* clipboardCommands()
    idx,         \* position of copyToClipboard's loop
    pipe,        \* stdin pipe of the current candidate: "none", "open", "closed"
    proc,        \* subprocess of the current candidate: "none", "started", "waited"
    attempts,    \* the pipeToCommand calls that returned, in order
    copyErr      \* copyToClipboard's error

vars == <<args, pc, parsed, url, urlErr, rawURL, resp, status, body, title,
          fetchErr, stdout, stderr, exitCode, goos, candidates, idx, pipe,
          proc, attempts, copyErr>>

\* ------------------------------------------------------------------ bounds

\* longest argument list
MaxArgs == 3
\* longest response body, in segments of BodySegments
MaxSegs == 4
\* stands for the read cap of 2 MiB, scaled to the bodies of the model
BodyLimit == 26

\* ------------------------------------------------------------- characters

NoErr == "nil"

\* unicode.IsSpace, on the characters of the model ("nbsp" is U+00A0)
IsSpace(ch) == ch \in {" ", "\t", "\n", "nbsp"}

\* strings.HasPrefix
HasPrefix(s, p) == Len(s) >= Len(p) /\ SubSeq(s, 1, Len(p)) = p

\* strings.TrimPrefix
TrimPrefix(s, p) == IF HasPrefix(s, p) THEN SubSeq(s, Len(p) + 1, Len(s)) ELSE s

RECURSIVE TrimLeft(_)
TrimLeft(s) ==
    IF s # <<>> /\ IsSpace(Head(s)) THEN TrimLeft(Tail(s)) ELSE s

RECURSIVE TrimRight(_)
TrimRight(s) ==
    IF s # <<>> /\ IsSpace(s[Len(s)]) THEN TrimRight(SubSeq(s, 1, Len(s) - 1)) ELSE s

\* strings.TrimSpace
TrimSpace(s) == TrimRight(TrimLeft(s))

\* ------------------------------------------------------------- parseArgs

ErrMissingValue == "missing URL value"
ErrUnknownOption == "unknown option"

\* stringFlag{}
NoFlag == [value |-> <<>>, set |-> FALSE]

\* the value parseArgs returns with an error
ParseFailure(e) ==
    [help |-> FALSE, markdown |-> FALSE, copyOut |-> FALSE, urlArg |-> NoFlag,
     positional |-> <<>>, err |-> e]

\* parseArgs' locals before the loop
ParseStart ==
    [help |-> FALSE, markdown |-> FALSE, copyOut |-> FALSE, urlArg |-> NoFlag,
     positional |-> <<>>, err |-> NoErr]

\* the inner loop with unknown letters skipped
RECURSIVE ParseClusterSkipUnknown(_, _, _, _)
ParseClusterSkipUnknown(a, i, k, st) ==
    LET arg == a[i.tok] IN
    IF k > Len(arg) THEN [st |-> st, i |-> i.cur]
    ELSE CASE arg[k] = "h" ->
                ParseClusterSkipUnknown(a, i, k + 1, [st EXCEPT !.help = TRUE])
           [] arg[k] = "m" ->
                ParseClusterSkipUnknown(a, i, k + 1, [st EXCEPT !.markdown = TRUE])
           [] arg[k] = "c" ->
                ParseClusterSkipUnknown(a, i, k + 1, [st EXCEPT !.copyOut = TRUE])
           [] arg[k] = "u" ->
                IF i.cur + 1 > Len(a)
                THEN [st |-> ParseFailure(ErrMissingValue), i |-> i.cur]
                ELSE ParseClusterSkipUnknown(a, [i EXCEPT !.cur = i.cur + 1], k + 1,
                        [st EXCEPT !.urlArg = [value |-> a[i.cur + 1], set |-> TRUE]])
           [] OTHER -> ParseClusterSkipUnknown(a, i, k + 1, st)

\* the inner loop with the letter c of a cluster setting nothing
RECURSIVE ParseClusterDropsCopy(_, _, _, _)
ParseClusterDropsCopy(a, i, k, st) ==
    LET arg == a[i.tok] IN
    IF k > Len(arg) THEN [st |-> st, i |-> i.cur]
    ELSE CASE arg[k] = "h" ->
                ParseClusterDropsCopy(a, i, k + 1, [st EXCEPT !.help = TRUE])
           [] arg[k] = "m" ->
                ParseClusterDropsCopy(a, i, k + 1, [st EXCEPT !.markdown = TRUE])
           [] arg[k] = "c" ->
                ParseClusterDropsCopy(a, i, k + 1, st)
           [] arg[k] = "u" ->
                IF i.cur + 1 > Len(a)
                THEN [st |-> ParseFailure(ErrMissingValue), i |-> i.cur]
                ELSE ParseClusterDropsCopy(a, [i EXCEPT !.cur = i.cur + 1], k + 1,
                        [st EXCEPT !.urlArg = [value |-> a[i.cur + 1], set |-> TRUE]])
           [] OTHER -> [st |-> ParseFailure(ErrUnknownOption), i |-> i.cur]

\* the inner loop over the letters arg[1:] of a short cluster, from letter k
\* on; the result carries the loop index i, which a 'u' advances
RECURSIVE ParseCluster(_, _, _, _)
ParseCluster(a, i, k, st) ==
    LET arg == a[i.tok] IN
    IF k > Len(arg) THEN [st |-> st, i |-> i.cur]
    ELSE CASE arg[k] = "h" ->
                ParseCluster(a, i, k + 1, [st EXCEPT !.help = TRUE])
           [] arg[k] = "m" ->
                ParseCluster(a, i, k + 1, [st EXCEPT !.markdown = TRUE])
           [] arg[k] = "c" ->
                ParseCluster(a, i, k + 1, [st EXCEPT !.copyOut = TRUE])
           [] arg[k] = "u" ->
                IF i.cur + 1 > Len(a)
                THEN [st |-> ParseFailure(ErrMissingValue), i |-> i.cur]
                ELSE ParseCluster(a, [i EXCEPT !.cur = i.cur + 1], k + 1,
                        [st EXCEPT !.urlArg = [value |-> a[i.cur + 1], set |-> TRUE]])
           [] OTHER -> [st |-> ParseFailure(ErrUnknownOption), i |-> i.cur]

\* the loop of parseArgs from index i on
RECURSIVE ParseFrom(_, _, _)
ParseFrom(a, i, st) ==
    IF i > Len(a) THEN st
    ELSE LET arg == a[i] IN
         CASE arg = <<"-", "h">> \/ arg = <<"-", "-", "h", "e", "l", "p">> ->
                ParseFrom(a, i + 1, [st EXCEPT !.help = TRUE])
           [] arg = <<"-", "m">>
              \/ arg = <<"-", "-", "m", "a", "r", "k", "d", "o", "w", "n">> ->
                ParseFrom(a, i + 1, [st EXCEPT !.markdown = TRUE])
           [] arg = <<"-", "c">> \/ arg = <<"-", "-", "c", "o", "p", "y">> ->
                ParseFrom(a, i + 1, [st EXCEPT !.copyOut = TRUE])
           [] arg = <<"-", "u">> \/ arg = <<"-", "-", "u", "r", "l">> ->
                IF i + 1 > Len(a) THEN ParseFailure(ErrMissingValue)
                ELSE ParseFrom(a, i + 2,
                        [st EXCEPT !.urlArg = [value |-> a[i + 1], set |-> TRUE]])
           [] HasPrefix(arg, <<"-", "-", "u", "r", "l", "=">>) ->
                ParseFrom(a, i + 1,
                    [st EXCEPT !.urlArg =
                        [value |-> TrimPrefix(arg, <<"-", "-", "u", "r", "l", "=">>),
                         set |-> TRUE]])
           [] HasPrefix(arg, <<"-", "u", "=">>) ->
                ParseFrom(a, i + 1,
                    [st EXCEPT !.urlArg =
                        [value |-> TrimPrefix(arg, <<"-", "u", "=">>), set |-> TRUE]])
           [] HasPrefix(arg, <<"-">>) /\ Len(arg) > 1 ->
                LET r == ParseCluster(a, [tok |-> i, cur |-> i], 2, st) IN
                IF r.st.err # NoErr THEN r.st ELSE ParseFrom(a, r.i + 1, r.st)
           [] OTHER ->
                ParseFrom(a, i + 1, [st EXCEPT !.positional = Append(@, arg)])

parseArgs(a) == ParseFrom(a, 1, ParseStart)

\* ------------------------------------------------------------ resolveURL

ErrConflict == "URL via -u/--url or positional, not both"
ErrEmptyURL == "URL is empty"
ErrOnlyOne == "only one URL"
ErrURLRequired == "URL required"

\* resolveURL with the flag winning over positionals
resolveURLFlagWins(positional, urlArg) ==
    CASE urlArg.set ->
            IF TrimSpace(urlArg.value) = <<>> THEN [url |-> <<>>, err |-> ErrEmptyURL]
            ELSE [url |-> urlArg.value, err |-> NoErr]
      [] ~urlArg.set /\ Len(positional) = 1 ->
            IF TrimSpace(positional[1]) = <<>> THEN [url |-> <<>>, err |-> ErrEmptyURL]
            ELSE [url |-> positional[1], err |-> NoErr]
      [] ~urlArg.set /\ Len(positional) > 1 -> [url |-> <<>>, err |-> ErrOnlyOne]
      [] OTHER -> [url |-> <<>>, err |-> ErrURLRequired]

\* resolveURL comparing with "" without strings.TrimSpace
resolveURLNoTrim(positional, urlArg) ==
    CASE urlArg.set ->
            IF Len(positional) > 0 THEN [url |-> <<>>, err |-> ErrConflict]
            ELSE IF urlArg.value = <<>> THEN [url |-> <<>>, err |-> ErrEmptyURL]
            ELSE [url |-> urlArg.value, err |-> NoErr]
      [] ~urlArg.set /\ Len(positional) = 1 ->
            IF positional[1] = <<>> THEN [url |-> <<>>, err |-> ErrEmptyURL]
            ELSE [url |-> positional[1], err |-> NoErr]
      [] ~urlArg.set /\ Len(positional) > 1 -> [url |-> <<>>, err |-> ErrOnlyOne]
      [] OTHER -> [url |-> <<>>, err |-> ErrURLRequired]

resolveURL(positional, urlArg) ==
    CASE urlArg.set ->
            IF Len(positional) > 0 THEN [url |-> <<>>, err |-> ErrConflict]
            ELSE IF TrimSpace(urlArg.value) = <<>> THEN [url |-> <<>>, err |-> ErrEmptyURL]
            ELSE [url |-> urlArg.value, err |-> NoErr]
      [] ~urlArg.set /\ Len(positional) = 1 ->
            IF TrimSpace(positional[1]) = <<>> THEN [url |-> <<>>, err |-> ErrEmptyURL]
            ELSE [url |-> positional[1], err |-> NoErr]
      [] ~urlArg.set /\ Len(positional) > 1 -> [url |-> <<>>, err |-> ErrOnlyOne]
      [] OTHER -> [url |-> <<>>, err |-> ErrURLRequired]

\* ------------------------------------------------------------ fetchTitle

ErrGet == "GET failed"
ErrHTTP == "HTTP error"
ErrRead == "reading the response failed"
ErrNoTitle == "title tag not found"
ErrEmptyTitle == "title was empty"

\* the scheme default at the head of fetchTitle
DefaultScheme(u) ==
    IF ~HasPrefix(u, <<"h", "t", "t", "p", ":", "/", "/">>)
       /\ ~HasPrefix(u, <<"h", "t", "t", "p", "s", ":", "/", "/">>)
    THEN <<"h", "t", "t", "p", "s", ":", "/", "/">> \o u
    ELSE u

\* the status test of fetchTitle
BadStatus(code) == code < 200 \/ code >= 300

\* io.LimitReader: at most n bytes are read
LimitRead(b, n) == IF Len(b) > n THEN SubSeq(b, 1, n) ELSE b

\* case folding of the flag (?i), on the letters of the pattern
Fold(ch) ==
    CASE ch = "T" -> "t" [] ch = "I" -> "i" [] ch = "L" -> "l" [] ch = "E" -> "e"
      [] OTHER -> ch

\* the literal p matches s at position i, letters folded
MatchAt(s, i, p) ==
    /\ i + Len(p) - 1 <= Len(s)
    /\ \A k \in 1..Len(p) : Fold(s[i + k - 1]) = p[k]

\* the first position >= from at which the literal p matches, 0 if none
IndexFrom(s, p, from) ==
    LET hits == {i \in from..Len(s) : MatchAt(s, i, p)} IN
    IF hits = {} THEN 0 ELSE CHOOSE i \in hits : \A j \in hits : i <= j

\* titlePattern.FindSubmatch: the leftmost "<title", [^>]* up to the first ">",
\* the shortest (.*?) up to the first "</title>"
titlePattern(b) ==
    LET o == IndexFrom(b, <<"<", "t", "i", "t", "l", "e">>, 1)
        g == IF o = 0 THEN 0 ELSE IndexFrom(b, <<">">>, o + 6)
        c == IF g = 0 THEN 0
             ELSE IndexFrom(b, <<"<", "/", "t", "i", "t", "l", "e", ">">>, g + 1)
    IN IF c = 0 THEN [found |-> FALSE, inner |-> <<>>]
       ELSE [found |-> TRUE, inner |-> SubSeq(b, g + 1, c - 1)]

\* the character references of the model, each with the character it denotes
Entities ==
    { [name |-> <<"&", "a", "m", "p", ";">>, to |-> "&"],
      [name |-> <<"&", "n", "b", "s", "p", ";">>, to |-> "nbsp"],
      [name |-> <<"&", "#", "3", "2", ";">>, to |-> " "] }

\* html.UnescapeString: one pass, left to right
RECURSIVE UnescapeString(_)
UnescapeString(s) ==
    IF s = <<>> THEN <<>>
    ELSE LET es == {e \in Entities : HasPrefix(s, e.name)} IN
         IF es # {}
         THEN LET e == CHOOSE x \in es : TRUE IN
              <<e.to>> \o UnescapeString(SubSeq(s, Len(e.name) + 1, Len(s)))
         ELSE <<Head(s)>> \o UnescapeString(Tail(s))

\* strings.Fields: the maximal runs of non-space characters
RECURSIVE Fields(_)
Fields(s) ==
    LET t == TrimLeft(s) IN
    IF t = <<>> THEN <<>>
    ELSE LET stops == {i \in 1..Len(t) : IsSpace(t[i])}
             n == IF stops = {} THEN Len(t) + 1
                  ELSE CHOOSE i \in stops : \A j \in stops : i <= j
         IN <<SubSeq(t, 1, n - 1)>> \o Fields(SubSeq(t, n, Len(t)))

\* strings.Join(words, " ")
RECURSIVE JoinSpace(_)
JoinSpace(ws) ==
    IF ws = <<>> THEN <<>>
    ELSE IF Len(ws) = 1 THEN ws[1]
    ELSE ws[1] \o <<" ">> \o JoinSpace(Tail(ws))

\* whitespace normalisation first, unescape second
NormalizeThenUnescape(inner) == UnescapeString(JoinSpace(Fields(inner)))

\* the unescape and whitespace normalisation of the captured text
NormalizeTitle(inner) == JoinSpace(Fields(UnescapeString(inner)))

\* the extraction part of fetchTitle, from the bytes read
ExtractTitle(b) ==
    LET m == titlePattern(b) IN
    IF ~m.found THEN [title |-> <<>>, err |-> ErrNoTitle]
    ELSE LET t == NormalizeTitle(m.inner) IN
         IF t = <<>> THEN [title |-> <<>>, err |-> ErrEmptyTitle]
         ELSE [title |-> t, err |-> NoErr]

\* ------------------------------------------------------------- clipboard

ErrNoClipboard == "supported clipboard command not found"
ErrLookPath == "executable not found"
ErrStdinPipe == "StdinPipe failed"
ErrStart == "Start failed"
ErrWrite == "write failed"
ErrClose == "close failed"
ErrWait == "Wait failed"

GOOSES == {"darwin", "windows", "linux"}

clipboardCommands(os) ==
    CASE os = "darwin" -> <<"pbcopy">>
      [] os = "windows" -> <<"clip">>
      [] OTHER -> <<"wl-copy", "xclip", "xsel">>

\* ----------------------------------------------------------------- output

\* fmt.Sprintf("[%s](%s)", title, url)
MarkdownLink(t, u) == <<"[">> \o t \o <<"]", "(">> \o u \o <<")">>

\* run's output line
Output(t, u, markdown) == IF markdown THEN MarkdownLink(t, u) ELSE t

Usage == [kind |-> "usage", text |-> <<>>, err |-> ""]
Line(t) == [kind |-> "line", text |-> t, err |-> ""]
ErrLine(e) == [kind |-> "error", text |-> <<>>, err |-> e]
CopyWarning(e) == [kind |-> "clipboard copy failed", text |-> <<>>, err |-> e]

\* ----------------------------------------------------------------- inputs

\* the argument tokens of the model: the flag forms of parseArgs, clusters in
\* both letter orders, a cluster with an unknown letter, an empty flag value,
\* a lone dash, a blank token, URLs with and without a scheme
Tokens ==
    { <<"-", "h">>, <<"-", "m">>, <<"-", "c">>, <<"-", "u">>,
      <<"-", "-", "u", "r", "l">>,
      <<"-", "-", "u", "r", "l", "=", "a">>, <<"-", "u", "=">>,
      <<"-", "m", "c">>, <<"-", "c", "m">>, <<"-", "m", "u">>, <<"-", "u", "m">>,
      <<"-", "m", "x">>, <<"-">>,
      <<" ", "\t">>, <<"a">>, <<"h", "t", "t", "p", ":", "/", "/", "a">> }

RECURSIVE SeqsUpTo(_, _)
SeqsUpTo(S, n) ==
    IF n = 0 THEN {<<>>}
    ELSE LET shorter == SeqsUpTo(S, n - 1) IN
         shorter \cup {Append(q, x) : q \in {r \in shorter : Len(r) = n - 1}, x \in S}

ArgLists == SeqsUpTo(Tokens, MaxArgs)

RECURSIVE Flatten(_)
Flatten(ss) == IF ss = <<>> THEN <<>> ELSE Head(ss) \o Flatten(Tail(ss))

SegOpen == <<"<", "t", "i", "t", "l", "e", ">">>
SegOpenAttr == <<"<", "T", "I", "T", "L", "E", " ", "x", ">">>
SegClose == <<"<", "/", "t", "i", "t", "l", "e", ">">>
SegWordA == <<"a", "\n", " ">>
SegWordB == <<" ", "b">>
SegNbsp == <<"&", "n", "b", "s", "p", ";">>
SegSpaceRef == <<"&", "#", "3", "2", ";">>
SegAmp == <<"&", "a", "m", "p", ";">>

BodySegments ==
    {SegOpen, SegOpenAttr, SegClose, SegWordA, SegWordB, SegNbsp, SegSpaceRef, SegAmp}

\* every body of at most MaxSegs segments
AllBodies == {Flatten(ss) : ss \in SeqsUpTo(BodySegments, MaxSegs)}

\* the bodies served under Spec: a title, a blank title, no title
FewBodies ==
    { Flatten(<<SegOpen, SegWordA, SegWordB, SegClose>>),
      Flatten(<<SegOpenAttr, SegNbsp, SegClose>>),
      Flatten(<<SegWordA>>) }

Statuses == {199, 200, 300}

\* ------------------------------------------------------------------- run

Init ==
    /\ args \in ArgLists
    /\ pc = "run"
    /\ parsed = ParseStart
    /\ url = <<>>
    /\ urlErr = NoErr
    /\ rawURL = <<>>
    /\ resp = "none"
    /\ status = 0
    /\ body = <<>>
    /\ title = <<>>
    /\ fetchErr = NoErr
    /\ stdout = <<>>
    /\ stderr = <<>>
    /\ exitCode = -1
    /\ goos = ""
    /\ candidates = <<>>
    /\ idx = 0
    /\ pipe = "none"
    /\ proc = "none"
    /\ attempts = <<>>
    /\ copyErr = NoErr

fetchVars == <<rawURL, resp, status, body, title, fetchErr>>
copyVars == <<goos, candidates, idx, pipe, proc, attempts, copyErr>>

\* run: parseArgs, the usage error and the help exit
RunParse ==
    /\ pc = "run"
    /\ LET r == parseArgs(args) IN
       /\ parsed' = r
       /\ IF r.err # NoErr
          THEN /\ stderr' = Append(stderr, Usage)
               /\ exitCode' = 2
               /\ pc' = "done"
               /\ UNCHANGED stdout
          ELSE IF r.help
          THEN /\ stdout' = Append(stdout, Usage)
               /\ exitCode' = 0
               /\ pc' = "done"
               /\ UNCHANGED stderr
          ELSE /\ pc' = "resolve"
               /\ UNCHANGED <<stdout, stderr, exitCode>>
    /\ UNCHANGED <<args, url, urlErr, fetchVars, copyVars>>

\* run: resolveURL and its error exit
RunResolve ==
    /\ pc = "resolve"
    /\ LET r == resolveURL(parsed.positional, parsed.urlArg) IN
       /\ url' = r.url
       /\ urlErr' = r.err
       /\ IF r.err # NoErr
          THEN /\ stderr' = stderr \o <<ErrLine(r.err), Usage>>
               /\ exitCode' = 2
               /\ pc' = "done"
          ELSE /\ pc' = "get"
               /\ UNCHANGED <<stderr, exitCode>>
    /\ UNCHANGED <<args, parsed, stdout, fetchVars, copyVars>>

\* the effect of "defer resp.Body.Close()" when fetchTitle returns
DeferredClose(r) == "closed"

\* fetchTitle: the scheme default and client.Get; the server answers with a
\* status and one of the bodies, or the transport fails
FetchGet(bodies) ==
    /\ pc = "get"
    /\ rawURL' = DefaultScheme(url)
    /\ \/ /\ fetchErr' = ErrGet
          /\ pc' = "fetched"
          /\ UNCHANGED <<resp, status, body>>
       \/ \E code \in Statuses, b \in bodies :
            /\ resp' = "open"
            /\ status' = code
            /\ body' = b
            /\ pc' = "status"
            /\ UNCHANGED fetchErr
    /\ UNCHANGED <<args, parsed, url, urlErr, title, stdout, stderr, exitCode, copyVars>>

\* fetchTitle: the status check
FetchStatus ==
    /\ pc = "status"
    /\ IF BadStatus(status)
       THEN /\ fetchErr' = ErrHTTP
            /\ resp' = DeferredClose(resp)
            /\ pc' = "fetched"
       ELSE /\ pc' = "read"
            /\ UNCHANGED <<fetchErr, resp>>
    /\ UNCHANGED <<args, parsed, url, urlErr, rawURL, status, body, title, stdout,
                   stderr, exitCode, copyVars>>

\* fetchTitle: io.ReadAll of at most BodyLimit bytes, which may fail
FetchRead ==
    /\ pc = "read"
    /\ \/ /\ fetchErr' = ErrRead
          /\ resp' = DeferredClose(resp)
          /\ pc' = "fetched"
          /\ UNCHANGED body
       \/ /\ body' = LimitRead(body, BodyLimit)
          /\ pc' = "extract"
          /\ UNCHANGED <<fetchErr, resp>>
    /\ UNCHANGED <<args, parsed, url, urlErr, rawURL, status, title, stdout, stderr,
                   exitCode, copyVars>>

\* fetchTitle: the pattern match, the normalisation and the return
FetchExtract ==
    /\ pc = "extract"
    /\ LET r == ExtractTitle(body) IN
       /\ title' = r.title
       /\ fetchErr' = r.err
    /\ resp' = DeferredClose(resp)
    /\ pc' = "fetched"
    /\ UNCHANGED <<args, parsed, url, urlErr, rawURL, status, body, stdout, stderr,
                   exitCode, copyVars>>

\* run printing the line only when no copy is asked for
RunPrintUnlessCopy ==
    /\ pc = "fetched"
    /\ IF fetchErr # NoErr
       THEN /\ stderr' = Append(stderr, ErrLine(fetchErr))
            /\ exitCode' = 1
            /\ pc' = "done"
            /\ UNCHANGED stdout
       ELSE /\ UNCHANGED stderr
            /\ IF parsed.copyOut
               THEN pc' = "copy" /\ UNCHANGED <<exitCode, stdout>>
               ELSE /\ pc' = "done" /\ exitCode' = 0
                    /\ stdout' = Append(stdout, Line(Output(title, url, parsed.markdown)))
    /\ UNCHANGED <<args, parsed, url, urlErr, fetchVars, copyVars>>

\* run: the fetch error exit, the output line, and the exit without --copy
RunPrint ==
    /\ pc = "fetched"
    /\ IF fetchErr # NoErr
       THEN /\ stderr' = Append(stderr, ErrLine(fetchErr))
            /\ exitCode' = 1
            /\ pc' = "done"
            /\ UNCHANGED stdout
       ELSE /\ stdout' = Append(stdout, Line(Output(title, url, parsed.markdown)))
            /\ UNCHANGED stderr
            /\ IF parsed.copyOut
               THEN pc' = "copy" /\ UNCHANGED exitCode
               ELSE pc' = "done" /\ exitCode' = 0
    /\ UNCHANGED <<args, parsed, url, urlErr, fetchVars, copyVars>>

\* copyToClipboard: the candidate list of the platform
CopyStart ==
    /\ pc = "copy"
    /\ goos' \in GOOSES
    /\ candidates' = clipboardCommands(goos')
    /\ idx' = 1
    /\ pc' = "loop"
    /\ UNCHANGED <<args, parsed, url, urlErr, fetchVars, stdout, stderr, exitCode,
                   pipe, proc, attempts, copyErr>>

\* copyToClipboard: the loop head, and the aggregate error after the loop
CopyLoop ==
    /\ pc = "loop"
    /\ IF idx > Len(candidates)
       THEN /\ copyErr' = ErrNoClipboard
            /\ pc' = "copied"
            /\ UNCHANGED <<pipe, proc>>
       ELSE /\ pipe' = "none"
            /\ proc' = "none"
            /\ pc' = "lookpath"
            /\ UNCHANGED copyErr
    /\ UNCHANGED <<args, parsed, url, urlErr, fetchVars, stdout, stderr, exitCode,
                   goos, candidates, idx, attempts>>

\* copyToClipboard going on to the next candidate after a success as well
PipeReturnKeepsGoing(e, p, q) ==
    /\ pipe' = p
    /\ proc' = q
    /\ attempts' = Append(attempts, [name |-> candidates[idx], ok |-> e = NoErr])
    /\ pc' = "loop" /\ idx' = idx + 1 /\ UNCHANGED copyErr

\* pipeToCommand returns e, with the pipe and the subprocess in states p and q;
\* the loop of copyToClipboard returns nil on nil and goes on otherwise
PipeReturn(e, p, q) ==
    /\ pipe' = p
    /\ proc' = q
    /\ attempts' = Append(attempts, [name |-> candidates[idx], ok |-> e = NoErr])
    /\ IF e = NoErr
       THEN pc' = "copied" /\ copyErr' = NoErr /\ UNCHANGED idx
       ELSE pc' = "loop" /\ idx' = idx + 1 /\ UNCHANGED copyErr

\* pipeToCommand: exec.LookPath
PipeLookPath ==
    /\ pc = "lookpath"
    /\ \/ PipeReturn(ErrLookPath, pipe, proc)
       \/ pc' = "stdinpipe" /\ UNCHANGED copyVars
    /\ UNCHANGED <<args, parsed, url, urlErr, fetchVars, stdout, stderr, exitCode,
                   goos, candidates>>

\* pipeToCommand: cmd.StdinPipe
PipeStdinPipe ==
    /\ pc = "stdinpipe"
    /\ \/ PipeReturn(ErrStdinPipe, pipe, proc)
       \/ /\ pipe' = "open"
          /\ pc' = "start"
          /\ UNCHANGED <<idx, proc, attempts, copyErr>>
    /\ UNCHANGED <<args, parsed, url, urlErr, fetchVars, stdout, stderr, exitCode,
                   goos, candidates>>

\* a failed cmd.Start: os/exec closes the pipes of the command itself before
\* Start returns the error; no process exists
StartFailed == [pipe |-> "closed", proc |-> "none"]

\* pipeToCommand: cmd.Start
PipeStart ==
    /\ pc = "start"
    /\ \/ PipeReturn(ErrStart, StartFailed.pipe, StartFailed.proc)
       \/ /\ proc' = "started"
          /\ pc' = "write"
          /\ UNCHANGED <<idx, pipe, attempts, copyErr>>
    /\ UNCHANGED <<args, parsed, url, urlErr, fetchVars, stdout, stderr, exitCode,
                   goos, candidates>>

\* the failed write without cmd.Wait()
WriteFailedNoWait == [pipe |-> "closed", proc |-> "started"]

\* the failed write: stdin.Close() and cmd.Wait(), results dropped
WriteFailed == [pipe |-> "closed", proc |-> "waited"]

\* pipeToCommand: io.WriteString
PipeWrite ==
    /\ pc = "write"
    /\ \/ PipeReturn(ErrWrite, WriteFailed.pipe, WriteFailed.proc)
       \/ pc' = "close" /\ UNCHANGED copyVars
    /\ UNCHANGED <<args, parsed, url, urlErr, fetchVars, stdout, stderr, exitCode,
                   goos, candidates>>

\* the failed stdin.Close(): cmd.Wait(), result dropped; Wait closes the pipe
CloseFailed == [pipe |-> "closed", proc |-> "waited"]

\* pipeToCommand: stdin.Close
PipeClose ==
    /\ pc = "close"
    /\ \/ PipeReturn(ErrClose, CloseFailed.pipe, CloseFailed.proc)
       \/ /\ pipe' = "closed"
          /\ pc' = "wait"
          /\ UNCHANGED <<idx, proc, attempts, copyErr>>
    /\ UNCHANGED <<args, parsed, url, urlErr, fetchVars, stdout, stderr, exitCode,
                   goos, candidates>>

\* pipeToCommand: return cmd.Wait()
PipeWait ==
    /\ pc = "wait"
    /\ \E e \in {NoErr, ErrWait} : PipeReturn(e, pipe, "waited")
    /\ UNCHANGED <<args, parsed, url, urlErr, fetchVars, stdout, stderr, exitCode,
                   goos, candidates>>

\* run returning 0 after the clipboard warning
RunCopiedReturnsZero ==
    /\ pc = "copied"
    /\ IF copyErr # NoErr
       THEN stderr' = Append(stderr, CopyWarning(copyErr))
       ELSE UNCHANGED stderr
    /\ exitCode' = 0
    /\ pc' = "done"
    /\ UNCHANGED <<args, parsed, url, urlErr, fetchVars, stdout, copyVars>>

\* run: the clipboard warning and the last return
RunCopied ==
    /\ pc = "copied"
    /\ IF copyErr # NoErr
       THEN /\ stderr' = Append(stderr, CopyWarning(copyErr))
            /\ exitCode' = 1
       ELSE /\ exitCode' = 0
            /\ UNCHANGED stderr
    /\ pc' = "done"
    /\ UNCHANGED <<args, parsed, url, urlErr, fetchVars, stdout, copyVars>>

Next ==
    \/ RunParse
    \/ RunResolve
    \/ FetchGet(FewBodies)
    \/ FetchStatus
    \/ FetchRead
    \/ FetchExtract
    \/ RunPrint
    \/ CopyStart
    \/ CopyLoop
    \/ PipeLookPath
    \/ PipeStdinPipe
    \/ PipeStart
    \/ PipeWrite
    \/ PipeClose
    \/ PipeWait
    \/ RunCopied

Spec == Init /\ [][Next]_vars

\* the title extraction over every body of the model: run without --copy
TitleArgs == { << <<"a">> >>, << <<"-", "m">>, <<"a">> >> }

InitTitle == Init /\ args \in TitleArgs

NextTitle ==
    \/ RunParse
    \/ RunResolve
    \/ FetchGet(AllBodies)
    \/ FetchStatus
    \/ FetchRead
    \/ FetchExtract
    \/ RunPrint

SpecTitle == InitTitle /\ [][NextTitle]_vars

\* ----------------------------------------------------------------- claims

Range(q) == {q[k] : k \in 1..Len(q)}

\* the positions at which fetchTitle has returned a title to run
AfterPrint ==
    {"copy", "loop", "lookpath", "stdinpipe", "start", "write", "close", "wait",
     "copied", "done"}

\* the positions inside pipeToCommand
InPipe == {"lookpath", "stdinpipe", "start", "write", "close", "wait"}

ParseFailed == parsed.err # NoErr
FetchSucceeded == pc \in AfterPrint /\ title # <<>>

\* C1: run ends with 0, 1 or 2 and nothing else: 2 exactly when parseArgs or
\* resolveURL failed, and then the usage text is on stderr; 1 exactly when the
\* fetch failed (transport, status, read, no title, empty title) or the
\* clipboard copy failed; 0 otherwise
C1_ExitCodes ==
    /\ pc # "done" => exitCode = -1
    /\ pc = "done" =>
        /\ exitCode \in {0, 1, 2}
        /\ exitCode = 2 <=> (ParseFailed \/ urlErr # NoErr)
        /\ exitCode = 2 => Usage \in Range(stderr)
        /\ exitCode = 1 <=>
              /\ ~ParseFailed /\ urlErr = NoErr
              /\ \/ fetchErr \in {ErrGet, ErrHTTP, ErrRead, ErrNoTitle, ErrEmptyTitle}
                 \/ copyErr = ErrNoClipboard
        /\ exitCode = 0 <=>
              /\ ~ParseFailed /\ urlErr = NoErr
              /\ fetchErr = NoErr /\ copyErr = NoErr

\* C1 witness: a run that ended with 2 after resolveURL failed
C1_Witness ==
    /\ pc = "done" /\ exitCode = 2 /\ ~ParseFailed /\ urlErr # NoErr
    /\ Usage \in Range(stderr)

\* C2: with the markdown flag, the printed line is "[title](url)" with the
\* URL that was requested, scheme default included
C2_MarkdownUsesFetchedURL ==
    (FetchSucceeded /\ parsed.markdown) =>
        stdout = <<Line(MarkdownLink(title, rawURL))>>

\* C3: once the fetch has succeeded the output line is on stdout before and
\* during every clipboard attempt and at the end, whatever the clipboard does;
\* a clipboard failure adds one warning to stderr and ends with 1
C3_PrintedBeforeClipboard ==
    /\ FetchSucceeded => stdout = <<Line(Output(title, url, parsed.markdown))>>
    /\ (pc \in InPipe \/ attempts # <<>>) => FetchSucceeded
    /\ (pc = "done" /\ FetchSucceeded /\ copyErr # NoErr) =>
          stderr = <<CopyWarning(copyErr)>> /\ exitCode = 1
    /\ (pc = "done" /\ FetchSucceeded /\ copyErr = NoErr) =>
          stderr = <<>> /\ exitCode = 0

\* C3 witness: every candidate failed and the line is on stdout
C3_Witness ==
    /\ pc = "done" /\ FetchSucceeded /\ copyErr = ErrNoClipboard
    /\ Len(attempts) = 3 /\ Len(stdout) = 1

\* resolveURL has been called
Resolved == pc \notin {"run", "resolve"} /\ ~ParseFailed /\ ~parsed.help

\* nothing of fetchTitle has run
NoFetch == rawURL = <<>> /\ resp = "none" /\ status = 0 /\ fetchErr = NoErr

Blank(v) == \A k \in 1..Len(v) : IsSpace(v[k])

\* the arguments hold a URL flag with a value and a positional as well
FlagAndPositional ==
    ~ParseFailed /\ parsed.urlArg.set /\ parsed.positional # <<>>

\* C4 as stated: every argument list with a URL flag value and a positional
\* ends with the conflict error, no fetch and status 2
C4_AlwaysConflict ==
    (pc = "done" /\ FlagAndPositional) =>
        urlErr = ErrConflict /\ NoFetch /\ exitCode = 2

\* C4 amended: every argument list that parses without error to a URL flag
\* value and a positional, and carries no help flag, ends with the conflict
\* error, no fetch and status 2
C4_ConflictUnlessHelp ==
    (pc = "done" /\ FlagAndPositional /\ ~parsed.help) =>
        urlErr = ErrConflict /\ NoFetch /\ exitCode = 2

\* C4 witness: "--url X" with a positional, rejected
C4_Witness ==
    /\ pc = "done" /\ FlagAndPositional /\ urlErr = ErrConflict
    /\ Len(args) = 3 /\ args[1] = <<"-", "-", "u", "r", "l">>

\* the flag value, or one of the positionals, is empty or whitespace only
BlankURLValue ==
    \/ parsed.urlArg.set /\ Blank(parsed.urlArg.value)
    \/ \E k \in 1..Len(parsed.positional) : Blank(parsed.positional[k])

\* C5 as stated: a blank URL value, flag or positional, makes resolveURL fail
\* with the empty-URL error
C5_BlankIsEmptyError ==
    (Resolved /\ BlankURLValue) => urlErr = ErrEmptyURL

\* C5 amended: with a blank URL value, flag or positional, resolveURL fails and
\* returns no URL: with the empty-URL error when the blank value is the only
\* URL given, with the conflict error when the flag comes with positionals,
\* with the only-one error when there are several positionals and no flag
C5_BlankNeverResolved ==
    (Resolved /\ BlankURLValue) =>
        /\ url = <<>> /\ NoFetch
        /\ urlErr =
             IF parsed.urlArg.set
             THEN IF parsed.positional # <<>> THEN ErrConflict ELSE ErrEmptyURL
             ELSE IF Len(parsed.positional) > 1 THEN ErrOnlyOne ELSE ErrEmptyURL

\* C5 witness: a whitespace-only flag value, alone, rejected as empty
C5_Witness ==
    /\ Resolved /\ parsed.urlArg.set /\ parsed.urlArg.value = <<" ", "\t">>
    /\ parsed.positional = <<>> /\ urlErr = ErrEmptyURL

\* ------------------------------------------------- the tokens of a command line

ExactFlags ==
    { <<"-", "h">>, <<"-", "-", "h", "e", "l", "p">>,
      <<"-", "m">>, <<"-", "-", "m", "a", "r", "k", "d", "o", "w", "n">>,
      <<"-", "c">>, <<"-", "-", "c", "o", "p", "y">> }

UrlFlags == { <<"-", "u">>, <<"-", "-", "u", "r", "l">> }

UrlAssign(t) ==
    HasPrefix(t, <<"-", "-", "u", "r", "l", "=">>) \/ HasPrefix(t, <<"-", "u", "=">>)

\* a dash and at least one more character, and none of the other flag forms
ClusterForm(t) ==
    /\ HasPrefix(t, <<"-">>) /\ Len(t) > 1
    /\ t \notin ExactFlags \cup UrlFlags /\ ~UrlAssign(t)

FlagForm(t) == t \in ExactFlags \cup UrlFlags \/ UrlAssign(t) \/ ClusterForm(t)

Letters(t) == Tail(t)

CountU(t) == Cardinality({k \in 1..Len(Letters(t)) : Letters(t)[k] = "u"})

\* the role of every token, read left to right: a URL flag or a cluster with
\* n letters u is followed by its value tokens, whatever they look like
RECURSIVE Roles(_, _, _)
Roles(a, i, pending) ==
    IF i > Len(a) THEN <<>>
    ELSE IF pending > 0 THEN <<"value">> \o Roles(a, i + 1, pending - 1)
    ELSE IF a[i] \in UrlFlags THEN <<"urlflag">> \o Roles(a, i + 1, 1)
    ELSE IF ClusterForm(a[i]) THEN <<"cluster">> \o Roles(a, i + 1, CountU(a[i]))
    ELSE IF FlagForm(a[i]) THEN <<"flag">> \o Roles(a, i + 1, 0)
    ELSE <<"positional">> \o Roles(a, i + 1, 0)

RoleOf(a) == Roles(a, 1, 0)

\* the value tokens that follow position i
ValuesAfter(a, i) ==
    Cardinality({j \in (i + 1)..Len(a) :
                    RoleOf(a)[j] = "value" /\ \A k \in (i + 1)..j : RoleOf(a)[k] = "value"})

RECURSIVE Select(_, _, _)
Select(a, r, what) ==
    IF a = <<>> THEN <<>>
    ELSE (IF Head(r) = what THEN <<Head(a)>> ELSE <<>>) \o Select(Tail(a), Tail(r), what)

\* a cluster with a letter other than h, m, c, u
UnknownLetter(t) == \E k \in 1..Len(Letters(t)) : Letters(t)[k] \notin {"h", "m", "c", "u"}

\* a URL flag or a cluster u without a value token after it
ValueMissing(a) ==
    \E i \in 1..Len(a) :
        \/ RoleOf(a)[i] = "urlflag" /\ ValuesAfter(a, i) < 1
        \/ RoleOf(a)[i] = "cluster" /\ ValuesAfter(a, i) < CountU(a[i])

\* parseArgs has just returned: parsed and args do not change afterwards
JustParsed == pc = "resolve" \/ (pc = "done" /\ (ParseFailed \/ parsed.help))

\* C7: parseArgs fails when a cluster holds an unknown letter or a -u, --url
\* or cluster u has no value token; after a parse error run has written the
\* usage text to stderr and nothing to stdout, has resolved, fetched and copied
\* nothing and has returned 2, help flag or not; after a parse without error
\* the positionals are the tokens that are neither flags nor flag values, in
\* the order of the arguments
C7_ParseErrors ==
    /\ JustParsed =>
        /\ (\E i \in 1..Len(args) : RoleOf(args)[i] = "cluster" /\ UnknownLetter(args[i]))
              => parsed.err # NoErr
        /\ ValueMissing(args) => parsed.err # NoErr
        /\ ~ParseFailed => parsed.positional = Select(args, RoleOf(args), "positional")
    /\ (pc # "run" /\ ParseFailed) =>
        /\ pc = "done" /\ exitCode = 2
        /\ stderr = <<Usage>> /\ stdout = <<>>
        /\ url = <<>> /\ urlErr = NoErr /\ NoFetch
        /\ candidates = <<>> /\ attempts = <<>>

\* C7 witness: a help flag, then a cluster with an unknown letter: status 2
C7_Witness ==
    /\ pc = "done" /\ ParseFailed /\ exitCode = 2
    /\ Len(args) >= 2 /\ args[1] = <<"-", "h">> /\ args[2] = <<"-", "m", "x">>

\* a cluster of the letters h, m, c, u
ShortFlags(a, i) == RoleOf(a)[i] = "cluster" /\ ~UnknownLetter(a[i])

\* the letters of every such cluster given as separate tokens, in the same order
RECURSIVE SplitFrom(_, _)
SplitFrom(a, i) ==
    IF i > Len(a) THEN <<>>
    ELSE (IF ShortFlags(a, i)
          THEN [k \in 1..Len(Letters(a[i])) |-> <<"-", Letters(a[i])[k]>>]
          ELSE <<a[i]>>) \o SplitFrom(a, i + 1)

SplitClusters(a) == SplitFrom(a, 1)

Reverse(q) == [k \in 1..Len(q) |-> q[Len(q) + 1 - k]]

\* the letters of every such cluster in the opposite order
ReverseClusters(a) ==
    [i \in 1..Len(a) |->
        IF ShortFlags(a, i) THEN <<"-">> \o Reverse(Letters(a[i])) ELSE a[i]]

\* help, markdown, copy, URL flag and positionals of a parse
ParsedState(r) ==
    [help |-> r.help, markdown |-> r.markdown, copyOut |-> r.copyOut,
     urlArg |-> r.urlArg, positional |-> r.positional]

\* the letter u is at most the last letter of the cluster
UOnlyLast(t) == \A k \in 1..(Len(Letters(t)) - 1) : Letters(t)[k] # "u"

\* C6 as stated: the parse of a command line is the parse of the same line
\* with every cluster of short flags split into one token per letter, and the
\* parse of the same line with the letters of every cluster in another order
C6_SplitAndOrder ==
    JustParsed =>
        /\ ParsedState(parsed) = ParsedState(parseArgs(SplitClusters(args)))
        /\ ParsedState(parsed) = ParsedState(parseArgs(ReverseClusters(args)))

\* C6 amended: the parse does not depend on the order of the letters of a
\* cluster of short flags; it is the parse of the line with every cluster
\* split into one token per letter when no cluster has a u before its last
\* letter ("-mc",
\* "-cm", "-m -c", "-c -m" agree, "-mu v" agrees with "-m -u v"; "-um v" does
\* not agree with "-u -m v", where "-m" is taken as the URL)
C6_SplitWhenULast ==
    JustParsed =>
        /\ ParsedState(parsed) = ParsedState(parseArgs(ReverseClusters(args)))
        /\ (\A i \in 1..Len(args) : ShortFlags(args, i) => UOnlyLast(args[i]))
              => parsed = parseArgs(SplitClusters(args))

\* C6 witness: "-mu v" parsed, markdown and URL set as for "-m -u v"
C6_Witness ==
    /\ JustParsed /\ ~ParseFailed
    /\ Len(args) >= 2 /\ args[1] = <<"-", "m", "u">>
    /\ parsed.markdown /\ parsed.urlArg = [value |-> args[2], set |-> TRUE]
    /\ SplitClusters(args)[1] = <<"-", "m">> /\ SplitClusters(args)[2] = <<"-", "u">>

\* C8: the candidates are those of the platform (wl-copy, xclip, xsel
\* elsewhere than on macOS and Windows); they are tried in that order, each at
\* most once; after a candidate that succeeded none is tried, and
\* copyToClipboard returns nil; it returns the aggregate error exactly when
\* every candidate was tried and failed
C8_CandidateOrder ==
    /\ (goos \notin {"", "darwin", "windows"}) => candidates = <<"wl-copy", "xclip", "xsel">>
    /\ goos = "darwin" => candidates = <<"pbcopy">>
    /\ goos = "windows" => candidates = <<"clip">>
    /\ Len(attempts) <= Len(candidates)
    /\ \A k \in 1..Len(attempts) : attempts[k].name = candidates[k]
    /\ \A k \in 1..(Len(attempts) - 1) : ~attempts[k].ok
    /\ pc \in InPipe => idx = Len(attempts) + 1 /\ \A k \in 1..Len(attempts) : ~attempts[k].ok
    /\ (pc \in {"copied", "done"} /\ candidates # <<>>) =>
          /\ copyErr \in {NoErr, ErrNoClipboard}
          /\ copyErr = ErrNoClipboard <=>
                /\ Len(attempts) = Len(candidates)
                /\ \A k \in 1..Len(attempts) : ~attempts[k].ok
          /\ copyErr = NoErr <=> (attempts # <<>> /\ attempts[Len(attempts)].ok)

\* C8 witness: wl-copy failed, xclip succeeded, xsel was not tried
C8_Witness ==
    /\ pc = "done" /\ copyErr = NoErr /\ goos = "linux"
    /\ attempts = <<[name |-> "wl-copy", ok |-> FALSE], [name |-> "xclip", ok |-> TRUE]>>

\* C9: when fetchTitle has returned, the body of a response that was obtained
\* is closed; when pipeToCommand has returned, the pipe it created is closed
\* and the subprocess it started has been waited for
C9_Released ==
    /\ pc \in AfterPrint \cup {"fetched"} => resp \in {"none", "closed"}
    /\ (pc \in AfterPrint \cup {"fetched"} /\ status # 0) => resp = "closed"
    /\ pc \in {"loop", "copied", "done"} => pipe # "open" /\ proc # "started"

\* C9 witness: pipeToCommand has returned an error after Start succeeded
C9_Witness ==
    /\ pc = "loop" /\ attempts # <<>> /\ ~attempts[Len(attempts)].ok
    /\ pipe = "closed" /\ proc = "waited" /\ resp = "closed"

\* C10: a title that fetchTitle returns is not empty, neither starts nor ends
\* with whitespace, and holds no whitespace but single spaces between words;
\* character references are decoded before that, so a title element whose
\* decoded text is all whitespace gives the empty-title error, and bytes read
\* without a title element give the not-found error; after such an error
\* nothing is on stdout
C10_TitleNormalized ==
    pc \in {"fetched", "done"} =>
        /\ (fetchErr = NoErr /\ resp = "closed") =>
              /\ title # <<>>
              /\ ~IsSpace(title[1]) /\ ~IsSpace(title[Len(title)])
              /\ \A k \in 1..Len(title) : IsSpace(title[k]) => title[k] = " "
              /\ \A k \in 1..(Len(title) - 1) : ~(title[k] = " " /\ title[k + 1] = " ")
        /\ (fetchErr \in {NoErr, ErrNoTitle, ErrEmptyTitle} /\ resp = "closed") =>
              LET m == titlePattern(body) IN
              /\ ~m.found <=> fetchErr = ErrNoTitle
              /\ (m.found /\ Blank(UnescapeString(m.inner))) <=> fetchErr = ErrEmptyTitle
        /\ fetchErr # NoErr => title = <<>> /\ stdout = <<>>

\* C10 witness: a title of character references only, rejected as empty
C10_Witness ==
    /\ pc = "done" /\ fetchErr = ErrEmptyTitle /\ stdout = <<>>
    /\ titlePattern(body).inner = SegNbsp \o SegSpaceRef

====
